---- MODULE Spec2Model ----
(***************************************************************************)
(* Model of youcube/yc_download.py: the download() pipeline                *)
(* (Spotify resolution, multi-client extraction fallback, playlist         *)
(* handling, metadata recovery, cache check, fetch, audio/video            *)
(* conversion, result assembly), one process per request, all requests     *)
(* sharing the data folder.                                                *)
(*                                                                         *)
(* Python's None is the empty tuple, a present value x is <<x>>.           *)
(***************************************************************************)
EXTENDS Integers, Sequences, FiniteSets, TLC

VARIABLES
    pc,               \* position of each request inside download()
    url,              \* parameter url (rebound by the Spotify resolution)
    width,            \* parameter width (rebound by the capping)
    height,           \* parameter height (rebound by the capping)
    spotify_url_processor, \* TRUE when the collaborator is supplied
    is_video,         \* local is_video
    playlist_videos,  \* local playlist_videos
    temp_dir,         \* "unset" | "open" | "deleted": the TemporaryDirectory
    temp_files,       \* listdir(temp_dir)
    attempt,          \* index of the profile try_extract_with_profiles is at
    last_error,       \* local last_error of try_extract_with_profiles
    caught,           \* the exception try_extract_with_profiles raised to download
    yt_dl,            \* index of the profile whose YoutubeDL extracted
    data,             \* local data
    media_id,         \* local media_id
    audio_exists,     \* local audio_exists
    video_exists,     \* local video_exists
    encoding,         \* artifact name the running encoder subprocess writes
    sent,             \* messages handed to resp.send, in emission order
    loop_queue,       \* sends scheduled on the event loop and not yet run
    delivered,        \* messages the event loop delivered to the client
    calls,            \* calls made to the collaborators, in call order
    result,           \* what download() returned or raised
    data_folder       \* files present in DATA_FOLDER (shared by all requests)

vars == <<pc, url, width, height, spotify_url_processor, is_video,
          playlist_videos, temp_dir, temp_files, attempt, last_error, caught,
          yt_dl, data, media_id, audio_exists, video_exists, encoding, sent,
          loop_queue, delivered, calls, result, data_folder>>

-----------------------------------------------------------------------------
(* Bounds of the model *)

DimBound == 2        \* supplied widths and heights range over 0..DimBound
MaxEntries == 2      \* a playlist outcome has at most MaxEntries entries
MaxTracks == 3       \* a Spotify multi-track result has at most MaxTracks tracks
MaxLines == 2        \* an encoder writes at most MaxLines lines of output
MaxReports == 2      \* the progress hook is told of at most MaxReports downloads under way

(* Configured maximums read by cap_width_and_height (yc_utils), scaled down: *)
(* only the order between a dimension and its maximum matters              *)
MAX_WIDTH == 1
MAX_HEIGHT == 1

-----------------------------------------------------------------------------
(* Values *)

None == <<>>
Some(x) == <<x>>

\* Python truthiness of an optional integer: not None and not 0
TruthyInt(o) == o # None /\ o[1] # 0

Min(a, b) == IF a <= b THEN a ELSE b

Refs == {"ref"}
Ids == {"A", "B"}
Dims == {None} \cup {Some(n) : n \in 0..DimBound}
ExitCodes == {0, 1}

Track(i) == "track" \o ToString(i)
\* SpotifyURLProcessor.auto on a track reference gives a search string
SearchString(t) == "search:" \o t

RECURSIVE SeqsUpTo(_, _)
SeqsUpTo(S, n) ==
    IF n = 0 THEN {<<>>}
    ELSE LET shorter == SeqsUpTo(S, n - 1)
         IN  shorter \cup {Append(s, x) : s \in {t \in shorter : Len(t) = n - 1}, x \in S}

Tail1(s) == IF s = <<>> THEN <<>> ELSE Tail(s)   \* Python s[1:]

DimStr(o) == IF o = None THEN "None" ELSE ToString(o[1])

-----------------------------------------------------------------------------
(* yc_utils helpers *)

get_audio_name(id) == id \o ".dfpwm"

get_video_name(id, w, h) == id \o "_" \o DimStr(w) \o "x" \o DimStr(h) \o ".32vid"

is_audio_already_downloaded(id) == get_audio_name(id) \in data_folder

is_video_already_downloaded(id, w, h) == get_video_name(id, w, h) \in data_folder

cap_width_and_height(w, h) ==
    <<Some(Min(w[1], MAX_WIDTH)), Some(Min(h[1], MAX_HEIGHT))>>

-----------------------------------------------------------------------------
(* Client profiles *)

ANDROID_UA == "com.google.android.youtube/19.20.34 (Linux; U; Android 13)"
WEB_EMBED_UA == "Mozilla/5.0 (X11; Linux x86_64) AppleWebKit/537.36 Chrome/118 Safari/537.36"
MUSIC_UA == "com.google.android.apps.youtube.music/6.26.52"

VideoFormat == "bv*[ext=mp4][height<=360]+ba[ext=m4a]/bv*+ba/bestvideo+bestaudio/bestaudio/best"
AudioFormat == "ba[ext=m4a]/bestaudio"

build_client_profiles(isv) ==
    LET base_format == IF isv THEN VideoFormat ELSE AudioFormat
    IN  << [user_agent |-> ANDROID_UA,   format |-> base_format],
           [user_agent |-> WEB_EMBED_UA, format |-> base_format],
           [user_agent |-> MUSIC_UA,     format |-> base_format] >>

-----------------------------------------------------------------------------
(* What the collaborators can answer *)

NoData ==
    [type |-> "none", id |-> "", title |-> None, like_count |-> None,
     view_count |-> None, is_live |-> FALSE, extractor |-> "",
     domain |-> None, entries |-> <<>>]

Complete == [like_count |-> Some(7), view_count |-> Some(9)]
NoLikes == [like_count |-> None, view_count |-> Some(9)]
NoViews == [like_count |-> Some(7), view_count |-> None]
Counts == {Complete, NoLikes, NoViews}

TitleOf(id) == Some("title of " \o id)

\* a single-item outcome of extract_info
Singles ==
    { [type |-> "video", id |-> i, title |-> TitleOf(i),
       like_count |-> x.counts.like_count, view_count |-> x.counts.view_count,
       is_live |-> l, extractor |-> x.extractor, domain |-> x.domain,
       entries |-> <<>>] :
      i \in Ids, l \in BOOLEAN,
      x \in { [extractor |-> "youtube", domain |-> Some("youtube.com"), counts |-> c] :
              c \in Counts }
            \cup
            { [extractor |-> "generic", domain |-> Some("example.com"), counts |-> Complete],
              [extractor |-> "generic", domain |-> None, counts |-> Complete],
              [extractor |-> "soundcloud", domain |-> Some("soundcloud.com"),
               counts |-> NoLikes] } }

\* an entry of a playlist outcome (extract_flat: partial metadata)
Entry(i, x) ==
    [type |-> "url", id |-> i, title |-> TitleOf(i), like_count |-> None,
     view_count |-> None, is_live |-> FALSE, extractor |-> x,
     domain |-> None, entries |-> <<>>]

\* a playlist outcome of extract_info
Playlists ==
    { [type |-> "playlist", id |-> "PL", title |-> Some("a playlist"),
       like_count |-> None, view_count |-> None, is_live |-> FALSE,
       extractor |-> x.extractor, domain |-> x.domain,
       entries |-> [k \in 1..Len(ids) |-> Entry(ids[k], x.entry)]] :
      ids \in SeqsUpTo(Ids, MaxEntries),
      x \in { [extractor |-> "youtube", domain |-> Some("youtube.com"),
               entry |-> "youtube"],
              [extractor |-> "generic", domain |-> Some("example.com"),
               entry |-> "soundcloud"] } }

ExtractionOutcomes == Singles \cup Playlists

\* what the metadata-only extraction keyed by an id can answer
RecoveryOutcomes(id) ==
    { [type |-> "video", id |-> id, title |-> TitleOf(id),
       like_count |-> c.like_count, view_count |-> c.view_count,
       is_live |-> l, extractor |-> "youtube",
       domain |-> Some("youtube.com"), entries |-> <<>>] :
      c \in Counts, l \in BOOLEAN }

\* SpotifyURLProcessor.auto(url): nothing (not a Spotify reference), one
\* search string, a list of track references, or a failure of the lookup
SpotifyAnswers ==
    { [kind |-> "none", value |-> <<>>], [kind |-> "raise", value |-> <<>>],
      [kind |-> "str", value |-> <<SearchString(Track(1))>>] }
    \cup { [kind |-> "list", value |-> [k \in 1..n |-> Track(k)]] : n \in 1..MaxTracks }

\* files the data folder may hold when a request arrives
InitialFiles == {get_audio_name("A"), get_video_name("A", Some(MAX_WIDTH), Some(MAX_HEIGHT))}

-----------------------------------------------------------------------------
(* Bookkeeping *)

Status(m) == [action |-> "status", message |-> m]
Error(m) == [action |-> "error", message |-> m]

\* one call of a collaborator: its name, its string argument, the dimensions
\* it was given and how it ended
Call(op, arg, w, h, res) == [op |-> op, arg |-> arg, w |-> w, h |-> h, res |-> res]

Pending == [kind |-> "pending", out |-> [action |-> "none"], files |-> <<>>, exc |-> ""]
Returned(out, files) == [kind |-> "return", out |-> out, files |-> files, exc |-> ""]
Raised(exc) == [kind |-> "raise", out |-> [action |-> "none"], files |-> <<>>, exc |-> exc]

\* (mutant) the coroutine resp.send(...) is created but never scheduled
HandoffLost(queue, m) == queue

\* run_coroutine_threadsafe(resp.send(dumps(m)), loop)
Handoff(queue, m) == Append(queue, m)

RECURSIVE HandoffAll(_, _)
HandoffAll(queue, msgs) ==
    IF msgs = <<>> THEN queue ELSE HandoffAll(Handoff(queue, Head(msgs)), Tail(msgs))

\* the request r sends msgs, one run_coroutine_threadsafe each, in this order
Emit(r, msgs) ==
    /\ sent' = [sent EXCEPT ![r] = @ \o msgs]
    /\ loop_queue' = [loop_queue EXCEPT ![r] = HandoffAll(@, msgs)]

\* (mutant) the directory is created with mkdtemp and never removed
ExitWithoutCleanup(state) == state

\* leaving the block of `with TemporaryDirectory(...)`: the directory is removed
ExitWith(state) == IF state = "open" THEN "deleted" ELSE state

InitRequests(R) ==
    /\ pc = [r \in R |-> "start"]
    /\ url \in [R -> Refs]
    /\ width \in [R -> Dims]
    /\ height \in [R -> Dims]
    /\ spotify_url_processor \in [R -> BOOLEAN]
    /\ is_video = [r \in R |-> FALSE]
    /\ playlist_videos = [r \in R |-> <<>>]
    /\ temp_dir = [r \in R |-> "unset"]
    /\ temp_files = [r \in R |-> <<>>]
    /\ attempt = [r \in R |-> 0]
    /\ last_error = [r \in R |-> None]
    /\ caught = [r \in R |-> None]
    /\ yt_dl = [r \in R |-> 0]
    /\ data = [r \in R |-> NoData]
    /\ media_id = [r \in R |-> ""]
    /\ audio_exists = [r \in R |-> FALSE]
    /\ video_exists = [r \in R |-> FALSE]
    /\ encoding = [r \in R |-> ""]
    /\ sent = [r \in R |-> <<>>]
    /\ loop_queue = [r \in R |-> <<>>]
    /\ delivered = [r \in R |-> <<>>]
    /\ calls = [r \in R |-> <<>>]
    /\ result = [r \in R |-> Pending]
    /\ data_folder \in SUBSET InitialFiles

Init == InitRequests({1})

-----------------------------------------------------------------------------
(* download(): Spotify resolution *)

\* (mutant) one dimension is enough to ask for video
IsVideoEitherDimension(w, h) == w # None \/ h # None

\* width is not None and height is not None
IsVideo(w, h) == w # None /\ h # None

\* if width and height: width, height = cap_width_and_height(width, height)
CapDims(w, h) ==
    IF TruthyInt(w) /\ TruthyInt(h) THEN cap_width_and_height(w, h) ELSE <<w, h>>

\* (mutant) the consumed first track stays in the queue
ContinuationKeepsFirst(processed) == processed

\* playlist_videos = processed[1:]
Continuation(processed) == Tail1(processed)

\* one call of spotify_url_processor.auto, with what it returned
Auto(arg, res, value) == Call("spotify.auto", arg, None, None, res) @@ [value |-> value]

\* the url and the continuation queue after the Spotify block, or the failure
\* of the lookup, with the calls made
SpotifyResolution(u, present) ==
    IF ~present
    THEN {[ok |-> TRUE, url |-> u, queue |-> <<>>, calls |-> <<>>]}
    ELSE LET first(a) == Auto(u, a.kind, a.value)
         IN  UNION { CASE a.kind = "none" ->
                          {[ok |-> TRUE, url |-> u, queue |-> <<>>,
                            calls |-> <<first(a)>>]}
                       [] a.kind = "raise" ->
                          {[ok |-> FALSE, url |-> u, queue |-> <<>>,
                            calls |-> <<first(a)>>]}
                       [] a.kind = "str" ->
                          {[ok |-> TRUE, url |-> a.value[1], queue |-> <<>>,
                            calls |-> <<first(a)>>]}
                       [] a.kind = "list" ->
                          LET processed == a.value
                              resolved == SearchString(processed[1])
                          IN  { [ok |-> TRUE, url |-> resolved,
                                 queue |-> Continuation(processed),
                                 calls |-> <<first(a),
                                             Auto(processed[1], "str", <<resolved>>)>>],
                                [ok |-> FALSE, url |-> u, queue |-> <<>>,
                                 calls |-> <<first(a),
                                             Auto(processed[1], "raise", <<>>)>>] }
                     : a \in SpotifyAnswers }

\* lines 215-255: is_video, capping, Spotify resolution, first status message,
\* entering the temporary directory, building the profiles
Start(r) ==
    /\ pc[r] = "start"
    /\ is_video' = [is_video EXCEPT ![r] = IsVideo(width[r], height[r])]
    /\ width' = [width EXCEPT ![r] = CapDims(width[r], height[r])[1]]
    /\ height' = [height EXCEPT ![r] = CapDims(width[r], height[r])[2]]
    /\ \E res \in SpotifyResolution(url[r], spotify_url_processor[r]) :
          /\ calls' = [calls EXCEPT ![r] = @ \o res.calls]
          /\ IF res.ok
             THEN /\ url' = [url EXCEPT ![r] = res.url]
                  /\ playlist_videos' = [playlist_videos EXCEPT ![r] = res.queue]
                  /\ Emit(r, <<Status("Getting resource information ...")>>)
                  /\ temp_dir' = [temp_dir EXCEPT ![r] = "open"]
                  /\ attempt' = [attempt EXCEPT ![r] = 1]
                  /\ pc' = [pc EXCEPT ![r] = "extract"]
                  /\ UNCHANGED result
             ELSE /\ result' = [result EXCEPT ![r] = Raised("SpotifyError")]
                  /\ pc' = [pc EXCEPT ![r] = "raised"]
                  /\ UNCHANGED <<url, playlist_videos, sent, loop_queue, temp_dir, attempt>>
    /\ UNCHANGED delivered
    /\ UNCHANGED <<spotify_url_processor, temp_files, last_error, caught, yt_dl,
                   data, media_id, audio_exists, video_exists, encoding,
                   data_folder>>

-----------------------------------------------------------------------------
(* try_extract_with_profiles, and download's handler around it *)

\* the exception extract_info raises under the p-th profile
ErrorOf(p) == "failure of client " \o ToString(p)

\* (mutant) the first failure is kept instead of the last
RecordFirstError(old, e) == IF old = None THEN Some(e) ELSE old

\* except Exception as e: last_error = e
RecordError(old, e) == Some(e)

\* the for loop: the profile after the one that failed
NextProfile(p) == p + 1

\* one iteration of the loop of try_extract_with_profiles (lines 189-196);
\* after the last profile, raise last_error (line 198) and download's
\* handler (lines 259-265)
TryProfileFrom(r, outcomes) ==
    /\ pc[r] = "extract"
    /\ LET profiles == build_client_profiles(is_video[r])
           p == attempt[r]
           try(res) == Call("extract_info", profiles[p].user_agent, None, None, res)
       IN  \/ \E d \in outcomes :
                /\ calls' = [calls EXCEPT ![r] = Append(@, try("ok"))]
                /\ yt_dl' = [yt_dl EXCEPT ![r] = p]
                /\ data' = [data EXCEPT ![r] = d]
                /\ pc' = [pc EXCEPT ![r] = "post"]
                /\ UNCHANGED <<attempt, last_error, caught, sent, loop_queue, result,
                               temp_dir>>
           \/ LET e == ErrorOf(p) IN
                /\ calls' = [calls EXCEPT ![r] = Append(@, try(e))]
                /\ last_error' = [last_error EXCEPT ![r] = RecordError(@, e)]
                /\ IF NextProfile(p) <= Len(profiles)
                   THEN /\ attempt' = [attempt EXCEPT ![r] = NextProfile(p)]
                        /\ UNCHANGED <<caught, sent, loop_queue, result, temp_dir, pc>>
                   ELSE /\ caught' = [caught EXCEPT ![r] = last_error'[r]]
                        /\ Emit(r, <<Error("Failed to extract media info")>>)
                        /\ result' = [result EXCEPT ![r] =
                              Returned([action |-> "error",
                                        message |-> "Extractor failed"], <<>>)]
                        /\ temp_dir' = [temp_dir EXCEPT ![r] = ExitWith(@)]
                        /\ pc' = [pc EXCEPT ![r] = "done"]
                        /\ UNCHANGED attempt
                /\ UNCHANGED <<yt_dl, data>>
    /\ UNCHANGED delivered
    /\ UNCHANGED <<url, width, height, spotify_url_processor, is_video,
                   playlist_videos, temp_files, media_id, audio_exists,
                   video_exists, encoding, data_folder>>

TryProfile(r) == TryProfileFrom(r, ExtractionOutcomes)

-----------------------------------------------------------------------------
(* download(): post-processing of the extraction outcome *)

\* an exception leaves download() through the with block
RaiseIn(r, exc) ==
    /\ result' = [result EXCEPT ![r] = Raised(exc)]
    /\ temp_dir' = [temp_dir EXCEPT ![r] = ExitWith(@)]
    /\ temp_files' = [temp_files EXCEPT ![r] = <<>>]
    /\ pc' = [pc EXCEPT ![r] = "raised"]

\* a return statement inside the with block
ReturnIn(r, out, files) ==
    /\ result' = [result EXCEPT ![r] = Returned(out, files)]
    /\ temp_dir' = [temp_dir EXCEPT ![r] = ExitWith(@)]
    /\ temp_files' = [temp_files EXCEPT ![r] = <<>>]
    /\ pc' = [pc EXCEPT ![r] = "done"]

\* data["id"] = "g" + data.get("webpage_url_domain") + data.get("id")
GenericId(d) == "g" \o d.domain[1] \o d.id

\* for v in data["entries"]: playlist_videos.append(v.get("id"))
\* playlist_videos = playlist_videos[1:]
PlaylistQueue(queue, d) ==
    Tail1(queue \o [k \in 1..Len(d.entries) |-> d.entries[k].id])

\* data.get("extractor") == "youtube" and (view_count is None or like_count is None)
NeedsRecovery(d) ==
    d.extractor = "youtube" /\ (d.view_count = None \/ d.like_count = None)

\* lines 267-281: generic id, playlist support, the test of the recovery
PostProcess(r) ==
    /\ pc[r] = "post"
    /\ LET d0 == data[r]
           generic == d0.extractor = "generic"
           d1 == IF generic /\ d0.domain # None
                 THEN [d0 EXCEPT !.id = GenericId(d0)] ELSE d0
           playlist == d1.type = "playlist"
           queue == IF playlist THEN PlaylistQueue(playlist_videos[r], d1)
                    ELSE playlist_videos[r]
       IN  IF generic /\ d0.domain = None
           THEN /\ RaiseIn(r, "TypeError")
                /\ UNCHANGED <<data, playlist_videos>>
           ELSE IF playlist /\ d1.entries = <<>>
           THEN /\ RaiseIn(r, "IndexError")
                /\ data' = [data EXCEPT ![r] = d1]
                /\ playlist_videos' = [playlist_videos EXCEPT ![r] = queue]
           ELSE LET d2 == IF playlist THEN d1.entries[1] ELSE d1
                IN  /\ data' = [data EXCEPT ![r] = d2]
                    /\ playlist_videos' = [playlist_videos EXCEPT ![r] = queue]
                    /\ pc' = [pc EXCEPT ![r] =
                                IF NeedsRecovery(d2) THEN "recover" ELSE "check"]
                    /\ UNCHANGED <<result, temp_dir, temp_files>>
    /\ UNCHANGED delivered
    /\ UNCHANGED <<url, width, height, spotify_url_processor, is_video, attempt,
                   last_error, caught, yt_dl, media_id, audio_exists,
                   video_exists, encoding, sent, loop_queue, calls, data_folder>>

\* (mutant) the failure of the second extraction leaves download()
PropagateFailure(r) == RaiseIn(r, "ExtractorError") /\ UNCHANGED data

\* except Exception: pass (lines 284-285)
SwallowFailure(r) ==
    /\ pc' = [pc EXCEPT ![r] = "check"]
    /\ UNCHANGED <<data, result, temp_dir, temp_files>>

\* lines 282-285: data = yt_dl.extract_info(data.get("id"), download=False),
\* a failure of it swallowed
RecoverMetadata(r) ==
    /\ pc[r] = "recover"
    /\ LET again(res) == Call("extract_info(id)", data[r].id, None, None, res)
       IN  \/ \E d \in RecoveryOutcomes(data[r].id) :
                /\ data' = [data EXCEPT ![r] = d]
                /\ calls' = [calls EXCEPT ![r] = Append(@, again("ok"))]
                /\ pc' = [pc EXCEPT ![r] = "check"]
                /\ UNCHANGED <<result, temp_dir, temp_files>>
           \/ /\ calls' = [calls EXCEPT ![r] = Append(@, again("raise"))]
              /\ SwallowFailure(r)
    /\ UNCHANGED delivered
    /\ UNCHANGED <<url, width, height, spotify_url_processor, is_video,
                   playlist_videos, attempt, last_error, caught, yt_dl,
                   media_id, audio_exists, video_exists, encoding, sent,
                   loop_queue, data_folder>>

-----------------------------------------------------------------------------
(* download(): the output *)

\* out, lines 325-334
MediaOut(id, d, queue) ==
    LET out == [action |-> "media", id |-> id, title |-> d.title,
                like_count |-> d.like_count, view_count |-> d.view_count]
    IN  IF queue # <<>> THEN out @@ [playlist_videos |-> queue] ELSE out

\* files, lines 336-338
Files(id, isv, w, h) ==
    IF isv THEN <<get_audio_name(id), get_video_name(id, w, h)>>
    ELSE <<get_audio_name(id)>>

-----------------------------------------------------------------------------
(* download(): livestream test, cache check, fetch *)

\* (mutant) a missing video artifact forces a fetch even for audio-only requests
NeedFetchIgnoringIsVideo(ae, isv, ve) == ~ae \/ ~ve

\* not audio_exists or (is_video and not video_exists)
NeedFetch(ae, isv, ve) == ~ae \/ (isv /\ ~ve)

\* if not audio_exists: download_audio(...)
NeedAudio(ae) == ~ae

\* if is_video and not video_exists: download_video(...)
NeedVideo(isv, ve) == isv /\ ~ve

\* where the control goes after the audio conversion statement
AfterAudio(isv, ve) == IF NeedVideo(isv, ve) THEN "video" ELSE "assemble"

\* where the control goes after the fetch statement
AfterFetch(ae, isv, ve) == IF NeedAudio(ae) THEN "audio" ELSE AfterAudio(isv, ve)

\* (mutant) the conversions are reached without the fetch
AfterCheckWithoutFetch(ae, isv, ve) == AfterFetch(ae, isv, ve)

\* where the control goes after the cache check
AfterCheck(ae, isv, ve) ==
    IF NeedFetch(ae, isv, ve) THEN "fetch" ELSE AfterFetch(ae, isv, ve)

\* lines 325-340, after the with block is left
Assemble(r, id) ==
    /\ result' = [result EXCEPT ![r] =
          Returned(MediaOut(id, data[r], playlist_videos[r]),
                   Files(id, is_video[r], width[r], height[r]))]
    /\ temp_dir' = [temp_dir EXCEPT ![r] = ExitWith(@)]
    /\ temp_files' = [temp_files EXCEPT ![r] = <<>>]
    /\ pc' = [pc EXCEPT ![r] = "done"]

\* the control moves to `next` inside the with block, or leaves the block and
\* runs to the end of download()
GoTo(r, next, id) ==
    IF next = "assemble"
    THEN Assemble(r, id)
    ELSE /\ pc' = [pc EXCEPT ![r] = next]
         /\ UNCHANGED <<result, temp_dir, temp_files>>

\* (mutant) the livestream test is missing
IsLiveIgnored(d) == FALSE

\* if data.get("is_live"): return ...
IsLive(d) == d.is_live

\* (mutant) an artifact another request is fetching or converting counts as
\* present
AudioExistsOrInFlight(r, id) ==
    \/ is_audio_already_downloaded(id)
    \/ \E o \in DOMAIN pc \ {r} :
          media_id[o] = id /\ pc[o] \in {"fetch", "audio", "ffmpeg", "video", "sanjuuni"}

\* audio_exists = is_audio_already_downloaded(media_id), for request r
AudioExists(r, id) == is_audio_already_downloaded(id)

\* video_exists = is_video_already_downloaded(media_id, width, height), for request r
VideoExists(r, id, w, h) == is_video_already_downloaded(id, w, h)

\* lines 287-295: media_id, the livestream return, the two presence checks
CheckCache(r) ==
    /\ pc[r] = "check"
    /\ media_id' = [media_id EXCEPT ![r] = data[r].id]
    /\ IF IsLive(data[r])
       THEN /\ ReturnIn(r, [action |-> "error",
                            message |-> "Livestreams are not supported"], <<>>)
            /\ UNCHANGED <<audio_exists, video_exists, calls>>
       ELSE LET id == data[r].id
                ae == AudioExists(r, id)
                ve == VideoExists(r, id, width[r], height[r])
            IN  /\ audio_exists' = [audio_exists EXCEPT ![r] = ae]
                /\ video_exists' = [video_exists EXCEPT ![r] = ve]
                /\ calls' = [calls EXCEPT ![r] = @ \o
                     << Call("is_audio_already_downloaded", id, None, None,
                             IF ae THEN "True" ELSE "False"),
                        Call("is_video_already_downloaded", id, width[r], height[r],
                             IF ve THEN "True" ELSE "False") >>]
                /\ GoTo(r, AfterCheck(ae, is_video[r], ve), id)
    /\ UNCHANGED delivered
    /\ UNCHANGED <<url, width, height, spotify_url_processor, is_video,
                   playlist_videos, attempt, last_error, caught, yt_dl, data,
                   encoding, sent, loop_queue, data_folder>>

\* the raw file process_ie_result leaves in temp_dir (outtmpl "%(id)s.%(ext)s")
RawFile(id) == id \o ".m4a"

\* what yt-dlp passes to the progress hook during one download: n reports
\* of a download under way, then "finished" when the download succeeded
HookInfos(n, ok) ==
    [k \in 1..n |-> [status |-> "downloading", percent |-> k]]
    \o (IF ok THEN <<[status |-> "finished", percent |-> n]>> ELSE <<>>)

\* my_hook, lines 221-229: what it sends for one info
my_hook(info) ==
    IF info.status = "downloading"
    THEN <<Status("download " \o ToString(info.percent) \o "% ETA 1")>>
    ELSE <<>>

RECURSIVE Hooked(_)
Hooked(infos) == IF infos = <<>> THEN <<>> ELSE my_hook(Head(infos)) \o Hooked(Tail(infos))

\* lines 300-314: yt_dl.process_ie_result(data, download=True), the hook
\* being told of `reports` downloads under way
FetchWith(r, reports) ==
    /\ pc[r] = "fetch"
    /\ LET fetch(res) == Call("process_ie_result", media_id[r], None, None, res)
           announce == Status("Downloading resource ...")
       IN  \E n \in reports :
           \/ \E files \in {<<RawFile(media_id[r])>>, <<>>} :
                /\ calls' = [calls EXCEPT ![r] = Append(@, fetch("ok"))]
                /\ Emit(r, <<announce>> \o Hooked(HookInfos(n, TRUE)))
                /\ pc' = [pc EXCEPT ![r] =
                            AfterFetch(audio_exists[r], is_video[r], video_exists[r])]
                /\ temp_files' = [temp_files EXCEPT ![r] = files]
                /\ UNCHANGED <<result, temp_dir>>
           \/ /\ calls' = [calls EXCEPT ![r] = Append(@, fetch("raise"))]
              /\ Emit(r, <<announce>> \o Hooked(HookInfos(n, FALSE))
                         \o <<Error("Failed to download media")>>)
              /\ ReturnIn(r, [action |-> "error", message |-> "Download failure"], <<>>)
    /\ UNCHANGED delivered
    /\ UNCHANGED <<url, width, height, spotify_url_processor, is_video,
                   playlist_videos, attempt, last_error, caught, yt_dl, data,
                   media_id, audio_exists, video_exists, encoding, data_folder>>

\* a fetch during which the hook is told of no download under way
Fetch(r) == FetchWith(r, {0})

-----------------------------------------------------------------------------
(* download_audio, download_video *)

\* run_with_live_output (yc_magic) either starts the encoder or fails to
SpawnOutcomes == {"spawned", "OSError"}

\* the part of a conversion helper up to the start of the encoder: the status
\* message, the source file listdir(temp_dir)[0], the spawn
StartEncoder(r, here, running, announce, encoder, target, w, h) ==
    /\ pc[r] = here
    /\ Emit(r, <<Status(announce)>>)
    /\ IF temp_files[r] = <<>>
       THEN /\ RaiseIn(r, "IndexError")
            /\ UNCHANGED <<calls, encoding>>
       ELSE \E o \in SpawnOutcomes :
              /\ calls' = [calls EXCEPT ![r] = Append(@, Call(encoder, target, w, h, o))]
              /\ IF o = "spawned"
                 THEN /\ encoding' = [encoding EXCEPT ![r] = target]
                      /\ pc' = [pc EXCEPT ![r] = running]
                      /\ UNCHANGED <<result, temp_dir, temp_files>>
                 ELSE /\ RaiseIn(r, o)
                      /\ UNCHANGED encoding
    /\ UNCHANGED delivered
    /\ UNCHANGED <<url, width, height, spotify_url_processor, is_video,
                   playlist_videos, attempt, last_error, caught, yt_dl, data,
                   media_id, audio_exists, video_exists, data_folder>>

\* the encoder exits: returncode, and the error message when it is not 0
ExitEncoder(r, running, next, failure) ==
    /\ pc[r] = running
    /\ \E returncode \in ExitCodes :
         /\ calls' = [calls EXCEPT ![r] =
               Append(@, Call("exit", encoding[r], None, None, ToString(returncode)))]
         /\ IF returncode # 0
            THEN /\ Emit(r, <<Error(failure)>>)
                 /\ UNCHANGED data_folder
            ELSE /\ data_folder' = data_folder \cup {encoding[r]}
                 /\ UNCHANGED <<sent, loop_queue, loop_queue>>
    /\ encoding' = [encoding EXCEPT ![r] = ""]
    /\ GoTo(r, next, media_id[r])
    /\ UNCHANGED delivered
    /\ UNCHANGED <<url, width, height, spotify_url_processor, is_video,
                   playlist_videos, attempt, last_error, caught, yt_dl, data,
                   media_id, audio_exists, video_exists>>

\* download_audio, lines 91-112
DownloadAudioStart(r) ==
    StartEncoder(r, "audio", "ffmpeg", "Converting audio to dfpwm ...", "ffmpeg",
                 get_audio_name(media_id[r]), None, None)

\* download_audio, lines 114-119
DownloadAudioExit(r) ==
    ExitEncoder(r, "ffmpeg", AfterAudio(is_video[r], video_exists[r]),
                "Failed to convert audio!")

\* download_video, lines 55-79
DownloadVideoStart(r) ==
    StartEncoder(r, "video", "sanjuuni", "Converting video to 32vid ...", "sanjuuni",
                 get_video_name(media_id[r], width[r], height[r]),
                 width[r], height[r])

\* download_video, lines 81-86
DownloadVideoExit(r) ==
    ExitEncoder(r, "sanjuuni", "assemble", "Failed to convert video!")

\* the k-th line an encoder writes
OutputLine(encoder, k) == encoder \o " output line " \o ToString(k)

\* download_audio's handler, lines 98-99: the line is logged
AudioHandler(line) == <<>>

\* download_video's handler, lines 62-64: the line is logged and sent as a status
VideoHandler(line) == <<Status(line)>>

\* the lines the running encoder of request r has written
LinesOf(r) ==
    LET written(c) == c.op = "output" /\ c.arg = encoding[r]
    IN  SelectSeq(calls[r], written)

\* run_with_live_output reads one more line and calls the handler with it
EncoderOutput(r, running, encoder) ==
    /\ pc[r] = running
    /\ Len(LinesOf(r)) < MaxLines
    /\ LET line == OutputLine(encoder, Len(LinesOf(r)) + 1)
       IN  /\ calls' = [calls EXCEPT ![r] =
                          Append(@, Call("output", encoding[r], None, None, line))]
           /\ Emit(r, IF encoder = "sanjuuni" THEN VideoHandler(line)
                      ELSE AudioHandler(line))
    /\ UNCHANGED delivered
    /\ UNCHANGED <<pc, url, width, height, spotify_url_processor, is_video,
                   playlist_videos, temp_dir, temp_files, attempt, last_error,
                   caught, yt_dl, data, media_id, audio_exists, video_exists,
                   encoding, result, data_folder>>

\* download_audio, lines 96-112: one line of ffmpeg
DownloadAudioOutput(r) == EncoderOutput(r, "ffmpeg", "ffmpeg")

\* download_video, lines 60-79: one line of sanjuuni
DownloadVideoOutput(r) == EncoderOutput(r, "sanjuuni", "sanjuuni")

\* the running encoder of request r creates the file it was told to write
\* (the -o argument of sanjuuni, the last argument of ffmpeg: the final
\* path in DATA_FOLDER) before it exits
EncoderWrites(r) ==
    /\ pc[r] \in {"ffmpeg", "sanjuuni"}
    /\ encoding[r] \notin data_folder
    /\ data_folder' = data_folder \cup {encoding[r]}
    /\ UNCHANGED <<pc, url, width, height, spotify_url_processor, is_video,
                   playlist_videos, temp_dir, temp_files, attempt, last_error,
                   caught, yt_dl, data, media_id, audio_exists, video_exists,
                   encoding, sent, loop_queue, delivered, calls, result>>

\* a fetch during which the hook is told of up to MaxReports downloads under way
FetchReporting(r) == FetchWith(r, 0..MaxReports)

-----------------------------------------------------------------------------
(* The event loop and the caller of download() *)

\* the event loop runs the oldest send scheduled for request r
Deliver(r) ==
    /\ loop_queue[r] # <<>>
    /\ delivered' = [delivered EXCEPT ![r] = Append(@, Head(loop_queue[r]))]
    /\ loop_queue' = [loop_queue EXCEPT ![r] = Tail(@)]
    /\ UNCHANGED <<pc, url, width, height, spotify_url_processor, is_video,
                   playlist_videos, temp_dir, temp_files, attempt, last_error,
                   caught, yt_dl, data, media_id, audio_exists, video_exists,
                   encoding, sent, calls, result, data_folder>>

\* the caller sends the outcome download() returned, through the same loop
Reply(r) ==
    /\ pc[r] = "done"
    /\ loop_queue' = [loop_queue EXCEPT ![r] = Append(@, result[r].out)]
    /\ pc' = [pc EXCEPT ![r] = "replied"]
    /\ UNCHANGED <<url, width, height, spotify_url_processor, is_video,
                   playlist_videos, temp_dir, temp_files, attempt, last_error,
                   caught, yt_dl, data, media_id, audio_exists, video_exists,
                   encoding, sent, delivered, calls, result, data_folder>>

-----------------------------------------------------------------------------
(* Specifications *)

Next ==
    \/ \E r \in DOMAIN pc : Start(r)
    \/ \E r \in DOMAIN pc : TryProfile(r)
    \/ \E r \in DOMAIN pc : PostProcess(r)
    \/ \E r \in DOMAIN pc : RecoverMetadata(r)
    \/ \E r \in DOMAIN pc : CheckCache(r)
    \/ \E r \in DOMAIN pc : Fetch(r)
    \/ \E r \in DOMAIN pc : DownloadAudioStart(r)
    \/ \E r \in DOMAIN pc : DownloadAudioExit(r)
    \/ \E r \in DOMAIN pc : DownloadVideoStart(r)
    \/ \E r \in DOMAIN pc : DownloadVideoExit(r)

Spec == Init /\ [][Next]_vars

\* One request followed to the client: a YouTube item "A" that is no
\* livestream, no Spotify collaborator, an empty data folder, both dimensions
\* or none; the encoders write lines, the hook is called, the loop delivers.
LiveOutcomes ==
    {d \in Singles : d.id = "A" /\ d.extractor = "youtube" /\ ~d.is_live
                     /\ d.view_count # None}

InitLive ==
    /\ InitRequests({1})
    /\ spotify_url_processor[1] = FALSE
    /\ width[1] \in {None, Some(MAX_WIDTH)}
    /\ height[1] = width[1]
    /\ data_folder = {}

NextLive ==
    \/ \E r \in DOMAIN pc : Start(r)
    \/ \E r \in DOMAIN pc : TryProfileFrom(r, LiveOutcomes)
    \/ \E r \in DOMAIN pc : PostProcess(r)
    \/ \E r \in DOMAIN pc : RecoverMetadata(r)
    \/ \E r \in DOMAIN pc : CheckCache(r)
    \/ \E r \in DOMAIN pc : FetchReporting(r)
    \/ \E r \in DOMAIN pc : DownloadAudioStart(r)
    \/ \E r \in DOMAIN pc : DownloadAudioOutput(r)
    \/ \E r \in DOMAIN pc : DownloadAudioExit(r)
    \/ \E r \in DOMAIN pc : DownloadVideoStart(r)
    \/ \E r \in DOMAIN pc : DownloadVideoOutput(r)
    \/ \E r \in DOMAIN pc : DownloadVideoExit(r)
    \/ \E r \in DOMAIN pc : Deliver(r)
    \/ \E r \in DOMAIN pc : Reply(r)

SpecLive == InitLive /\ [][NextLive]_vars

\* Two requests at the same time for the same dimensions (both or none), no
\* Spotify collaborator, an empty data folder, a YouTube item "A" with all
\* its metadata; a running encoder creates its output file before it exits.
ConcOutcomes == {d \in LiveOutcomes : d.like_count # None}

InitConc ==
    /\ InitRequests({1, 2})
    /\ \A r \in {1, 2} : spotify_url_processor[r] = FALSE
    /\ width[1] \in {None, Some(MAX_WIDTH)}
    /\ \A r \in {1, 2} : width[r] = width[1] /\ height[r] = width[1]
    /\ data_folder = {}

NextConc ==
    \/ \E r \in DOMAIN pc : Start(r)
    \/ \E r \in DOMAIN pc : TryProfileFrom(r, ConcOutcomes)
    \/ \E r \in DOMAIN pc : PostProcess(r)
    \/ \E r \in DOMAIN pc : CheckCache(r)
    \/ \E r \in DOMAIN pc : Fetch(r)
    \/ \E r \in DOMAIN pc : DownloadAudioStart(r)
    \/ \E r \in DOMAIN pc : DownloadAudioExit(r)
    \/ \E r \in DOMAIN pc : DownloadVideoStart(r)
    \/ \E r \in DOMAIN pc : DownloadVideoExit(r)
    \/ \E r \in DOMAIN pc : EncoderWrites(r)

SpecConc == InitConc /\ [][NextConc]_vars


-----------------------------------------------------------------------------
(* Properties *)

Requests == DOMAIN pc
Finished(r) == pc[r] \in {"done", "raised"}

\* the calls of request r whose name is in ops, in call order
CallsOf(r, ops) == LET named(c) == c.op \in ops IN SelectSeq(calls[r], named)

CacheOps == {"is_audio_already_downloaded", "is_video_already_downloaded"}
FetchOps == {"process_ie_result"}
EncoderOps == {"ffmpeg", "sanjuuni"}

CacheChecked(r) == CallsOf(r, CacheOps) # <<>>
ErrorsSent(r) == LET isError(m) == m.action = "error" IN SelectSeq(sent[r], isError)
ReturnedMedia(r) == result[r].kind = "return" /\ result[r].out.action = "media"
ReturnedError(r) ==
    result[r].kind = "return" /\ result[r].out.action = "error" /\ result[r].files = <<>>
Elems(q) == {q[i] : i \in DOMAIN q}

\* C1: when the audio artifact is present at the cache check and (the request
\* is audio-only or the video artifact is present too), download makes no
\* fetch and starts no encoder, and returns a Media outcome carrying the
\* extracted id, title, like_count and view_count.
C1_CacheHitSkipsFetchAndConversion ==
    \A r \in Requests :
        (CacheChecked(r) /\ audio_exists[r] /\ (~is_video[r] \/ video_exists[r]))
        => /\ CallsOf(r, FetchOps \cup EncoderOps) = <<>>
           /\ pc[r] = "done"
           /\ ReturnedMedia(r)
           /\ result[r].out.id = data[r].id
           /\ result[r].out.title = data[r].title
           /\ result[r].out.like_count = data[r].like_count
           /\ result[r].out.view_count = data[r].view_count

C1_Witness ==
    \E r \in Requests :
        /\ CacheChecked(r) /\ audio_exists[r] /\ is_video[r] /\ video_exists[r]
        /\ ReturnedMedia(r) /\ result[r].out.id = "A"

\* C2: try_extract_with_profiles attempts the profiles in list order (android,
\* web-embedded, music), attempts none after a success and returns that
\* success; when all fail, the error it raises is the failure of the last one.
C2_ProfilesInOrderLastErrorRaised ==
    \A r \in Requests :
        LET tries == CallsOf(r, {"extract_info"})
            order == <<ANDROID_UA, WEB_EMBED_UA, MUSIC_UA>>
            n == Len(tries)
        IN  /\ n <= Len(order)
            /\ \A k \in 1..n : tries[k].arg = order[k]
            /\ \A k \in 1..(n - 1) : tries[k].res # "ok"
            /\ (n > 0 /\ tries[n].res = "ok") => (yt_dl[r] = n /\ caught[r] = None)
            /\ (n > 0 /\ tries[n].res # "ok" /\ pc[r] # "extract")
               => /\ n = Len(order)
                  /\ caught[r] = Some(tries[n].res)
                  /\ caught[r] # Some(tries[1].res)
            /\ caught[r] # None => (n = Len(order) /\ tries[n].res # "ok")

C2_Witness ==
    \E r \in Requests :
        /\ Len(CallsOf(r, {"extract_info"})) = 3
        /\ caught[r] = Some(ErrorOf(3))
        /\ pc[r] = "done"

\* the encoder of one kind failed for request r: it could not be spawned, or
\* it exited non-zero
SpawnFailed(r, enc) == \E i \in DOMAIN calls[r] : calls[r][i].op = enc /\ calls[r][i].res = "OSError"
ExitedNonZero(r, target) ==
    \E i \in DOMAIN calls[r] :
        calls[r][i].op = "exit" /\ calls[r][i].arg = target /\ calls[r][i].res # "0"
AudioJobFailed(r) == SpawnFailed(r, "ffmpeg") \/ ExitedNonZero(r, get_audio_name(media_id[r]))
VideoJobFailed(r) ==
    SpawnFailed(r, "sanjuuni")
    \/ ExitedNonZero(r, get_video_name(media_id[r], width[r], height[r]))

\* C3: a failure of one conversion job (non-zero exit, or the encoder cannot
\* be spawned) emits the Error event naming its kind, lets the sibling job
\* run, and download still returns a Media outcome listing the audio filename
\* (and the video filename when video is wanted).
C3_ConversionFailureIsLocal ==
    \A r \in Requests :
        (Finished(r) /\ (AudioJobFailed(r) \/ VideoJobFailed(r)))
        => /\ AudioJobFailed(r) => Error("Failed to convert audio!") \in Elems(sent[r])
           /\ VideoJobFailed(r) => Error("Failed to convert video!") \in Elems(sent[r])
           /\ (AudioJobFailed(r) /\ NeedVideo(is_video[r], video_exists[r]))
              => CallsOf(r, {"sanjuuni"}) # <<>>
           /\ ReturnedMedia(r)
           /\ result[r].files = Files(media_id[r], is_video[r], width[r], height[r])

\* the four fatal failures of a request
SpotifyFailed(r) ==
    \E i \in DOMAIN calls[r] : calls[r][i].op = "spotify.auto" /\ calls[r][i].res = "raise"
ExtractionExhausted(r) == caught[r] # None
LivestreamOutcome(r) == pc[r] = "done" /\ data[r].is_live
FetchFailed(r) ==
    \E i \in DOMAIN calls[r] : calls[r][i].op = "process_ie_result" /\ calls[r][i].res = "raise"

\* C4: on a Spotify resolution failure, an extraction exhaustion, a livestream
\* outcome or a fetch failure, download emits exactly one Error event, runs no
\* conversion job and returns an error outcome with an empty artifact list.
C4_FatalFailureOneErrorNoArtifacts ==
    \A r \in Requests :
        (Finished(r) /\ (SpotifyFailed(r) \/ ExtractionExhausted(r)
                         \/ LivestreamOutcome(r) \/ FetchFailed(r)))
        => /\ Len(ErrorsSent(r)) = 1
           /\ CallsOf(r, EncoderOps) = <<>>
           /\ ReturnedError(r)

\* C5: when the final extraction outcome is a livestream, the request ends
\* with no cache presence check, no fetch and no conversion job.
C5_LivestreamEndsBeforeCacheCheck ==
    \A r \in Requests :
        data[r].is_live
        => /\ CallsOf(r, CacheOps \cup FetchOps \cup EncoderOps) = <<>>
           /\ pc[r] \in {"post", "recover", "check", "done", "raised"}
           /\ pc[r] = "done" => ReturnedError(r)

C5_Witness ==
    \E r \in Requests :
        /\ pc[r] = "done" /\ data[r].is_live
        /\ result[r].out = [action |-> "error", message |-> "Livestreams are not supported"]

\* C6: when width or height is not supplied, download_video is never invoked
\* and the returned file list holds no video artifact name.
C6_NoVideoJobWithoutBothDimensions ==
    \A r \in Requests :
        (width[r] = None \/ height[r] = None)
        => /\ CallsOf(r, {"sanjuuni"}) = <<>>
           /\ pc[r] \notin {"video", "sanjuuni"}
           /\ \A i \in DOMAIN result[r].files :
                 result[r].files[i] = get_audio_name(media_id[r])

C6_Witness ==
    \E r \in Requests :
        /\ width[r] # None /\ height[r] = None
        /\ ReturnedMedia(r)
        /\ CallsOf(r, {"ffmpeg"}) # <<>>

\* C7: the temporary directory exists from before the first extraction until
\* download is left, and is deleted on every way out of download: a Media
\* return, an extraction failure, a livestream, a fetch failure, a conversion
\* failure and an exception.
C7_TempDirReleasedOnEveryExit ==
    \A r \in Requests :
        /\ Finished(r) => temp_dir[r] # "open"
        /\ (Finished(r) /\ CallsOf(r, {"extract_info"}) # <<>>) => temp_dir[r] = "deleted"
        /\ pc[r] \notin {"start", "done", "raised"} => temp_dir[r] = "open"
        /\ CallsOf(r, FetchOps) # <<>> => temp_dir[r] \in {"open", "deleted"}

C7_Witness ==
    \E r \in Requests :
        /\ pc[r] = "raised" /\ temp_dir[r] = "deleted"
        /\ SpawnFailed(r, "sanjuuni")

\* C8: the queue reported as playlist_videos never contains the id reported
\* in the Media outcome.
C8_QueueExcludesPrimary ==
    \A r \in Requests :
        ReturnedMedia(r) => result[r].out.id \notin Elems(playlist_videos[r])

\* C9: for a playlist outcome with entries e0..en and a continuation queue Q
\* from the Spotify resolver, the primary item is e0 and the final queue is Q
\* followed by the ids of e1..en in order.
C9_PlaylistQueueIsSpotifyQueueThenRest ==
    [][\A r \in Requests :
          (pc[r] = "post" /\ data[r].type = "playlist" /\ data[r].entries # <<>>
           /\ pc'[r] # "post")
          => /\ data'[r] = data[r].entries[1]
             /\ playlist_videos'[r] =
                  playlist_videos[r] \o
                  [k \in 1..(Len(data[r].entries) - 1) |-> data[r].entries[k + 1].id]]_vars

\* C10: when both dimensions are supplied, the width and height used for the
\* video cache key, the encoder arguments and the video filename are never
\* above the configured maximums.
C10_VideoDimensionsAreClamped ==
    \A r \in Requests :
        is_video[r]
        => /\ \A i \in DOMAIN calls[r] :
                 calls[r][i].op \in {"is_video_already_downloaded", "sanjuuni"}
                 => (calls[r][i].w[1] <= MAX_WIDTH /\ calls[r][i].h[1] <= MAX_HEIGHT)
           /\ ReturnedMedia(r)
              => \E w \in 0..MAX_WIDTH, h \in 0..MAX_HEIGHT :
                    result[r].files[2] = get_video_name(media_id[r], Some(w), Some(h))

\* C11: when the winning extraction outcome comes from the "generic"
\* extractor, the id download goes on with (the cache keys, the conversion
\* destinations, the file list and the Media outcome are all named after it)
\* is "g", then the source domain, then the original id, for a single item
\* and for a playlist alike.
C11_GenericIdIsPrefixed ==
    [][\A r \in Requests :
          (pc[r] = "post" /\ pc'[r] \in {"recover", "check"}
           /\ data[r].extractor = "generic")
          => LET prefix == "g" \o data[r].domain[1]
             IN  IF data[r].type = "playlist"
                 THEN data'[r].id \in {prefix \o data[r].id,
                                       prefix \o data[r].entries[1].id}
                 ELSE data'[r].id = prefix \o data[r].id]_vars

\* C12: without a Spotify collaborator the reference goes to the extraction
\* unchanged and the queue is empty; when the collaborator returns one search
\* string, that string is the extraction url and the queue is empty; when it
\* returns the tracks t0..tn, the extraction url is what the collaborator
\* returns for t0 and the queue is t1..tn, unresolved and in order.
C12_SpotifyResolution ==
    [][\A r \in Requests :
          (pc[r] = "start" /\ pc'[r] = "extract")
          => LET autos == calls'[r]
             IN  IF ~spotify_url_processor[r]
                 THEN autos = <<>> /\ url'[r] = url[r] /\ playlist_videos'[r] = <<>>
                 ELSE CASE autos[1].res = "str" ->
                             /\ Len(autos) = 1
                             /\ url'[r] = autos[1].value[1]
                             /\ playlist_videos'[r] = <<>>
                        [] autos[1].res = "list" ->
                             LET t == autos[1].value
                             IN  /\ Len(autos) = 2
                                 /\ autos[2].arg = t[1]
                                 /\ url'[r] = autos[2].value[1]
                                 /\ playlist_videos'[r] = [k \in 1..(Len(t) - 1) |-> t[k + 1]]
                        [] OTHER -> url'[r] = url[r] /\ playlist_videos'[r] = <<>>]_vars

C12_Witness ==
    \E r \in Requests :
        /\ pc[r] = "extract"
        /\ url[r] = SearchString(Track(1))
        /\ playlist_videos[r] = <<Track(2), Track(3)>>

\* what request r has emitted so far: its messages, then its outcome once
\* the caller has sent it
Emitted(r) == sent[r] \o (IF pc[r] = "replied" THEN <<result[r].out>> ELSE <<>>)

LinesAsStatus(r, encoders) ==
    LET written(c) == c.op = "output" /\ \E k \in 1..MaxLines, e \in encoders :
                                            c.res = OutputLine(e, k)
        outputs == SelectSeq(calls[r], written)
    IN  [k \in DOMAIN outputs |-> Status(outputs[k].res)]

\* the Status events of request r that forward a line of an encoder
LinesForwarded(r) ==
    LET isLine(m) == \E k \in 1..MaxLines, e \in EncoderOps :
                        m = Status(OutputLine(e, k))
    IN  SelectSeq(sent[r], isLine)

\* C14: while a conversion job of either kind runs, every line its encoder
\* has written has already been sent as a Status event, in the order
\* written (so all of them are sent before the exit code is looked at).
C14_EveryEncoderLineForwarded ==
    \A r \in Requests : LinesForwarded(r) = LinesAsStatus(r, EncoderOps)

\* positions in the call log of request r of the calls named in ops
Positions(r, ops) == {i \in DOMAIN calls[r] : calls[r][i].op \in ops}

Converting(r) == pc[r] \in {"audio", "ffmpeg", "video", "sanjuuni"}

FetchSucceeded(r) ==
    \E i \in Positions(r, FetchOps) : calls[r][i].res = "ok"

\* C15: within a request both cache presence checks come first, then at most
\* one fetch, then the conversion jobs: no fetch and no conversion before the
\* two checks, and no conversion job unless a fetch of the same request has
\* succeeded.
C15_ChecksThenFetchThenConversions ==
    \A r \in Requests :
        /\ \A i \in Positions(r, CacheOps), j \in Positions(r, FetchOps \cup EncoderOps) :
              i < j
        /\ \A i \in Positions(r, FetchOps), j \in Positions(r, EncoderOps) : i < j
        /\ Cardinality(Positions(r, FetchOps)) <= 1
        /\ (Positions(r, FetchOps \cup EncoderOps) # {} \/ pc[r] = "fetch" \/ Converting(r))
           => Cardinality(Positions(r, CacheOps)) = 2
        /\ (Positions(r, EncoderOps) # {} \/ Converting(r)) => FetchSucceeded(r)

C15_Witness ==
    \E r \in Requests :
        /\ ReturnedMedia(r) /\ FetchSucceeded(r)
        /\ CallsOf(r, {"ffmpeg"}) # <<>> /\ CallsOf(r, {"sanjuuni"}) # <<>>

\* how many times request r entered the conversion helper that announces
\* itself with the status message `announce`
JobsRun(r, announce) ==
    Cardinality({i \in DOMAIN sent[r] : sent[r][i] = Status(announce)})

AudioJobsRun(r) == JobsRun(r, "Converting audio to dfpwm ...")
VideoJobsRun(r) == JobsRun(r, "Converting video to 32vid ...")

\* C16: a request that made the cache check makes exactly one fetch when
\* need_fetch is true and none otherwise; after a successful fetch the audio
\* job runs exactly once when the audio artifact was absent at the check and
\* never otherwise, and the video job runs exactly once when video is wanted
\* and the video artifact was absent and never otherwise.
C16_OneJobPerMissingArtifact ==
    \A r \in Requests :
        (Finished(r) /\ CacheChecked(r))
        => /\ Cardinality(Positions(r, FetchOps)) =
                 IF NeedFetch(audio_exists[r], is_video[r], video_exists[r]) THEN 1 ELSE 0
           /\ audio_exists[r] => AudioJobsRun(r) = 0
           /\ (~is_video[r] \/ video_exists[r]) => VideoJobsRun(r) = 0
           /\ FetchSucceeded(r)
              => /\ ~audio_exists[r] => AudioJobsRun(r) = 1
                 /\ (is_video[r] /\ ~video_exists[r]) => VideoJobsRun(r) = 1

RecoveryFailed(r) ==
    \E i \in DOMAIN calls[r] :
        calls[r][i].op = "extract_info(id)" /\ calls[r][i].res = "raise"

\* C17: when the item comes from the youtube extractor without its view
\* count or its like count, a second extraction keyed by the id is made, and
\* in no other case; when that second extraction fails, the request is not
\* failed, the partial metadata stay as they were and the pipeline goes on
\* to the cache check.
C17_RecoveryFailureKeepsPartialMetadata ==
    [][\A r \in Requests :
          /\ (pc[r] = "post" /\ pc'[r] \notin {"post", "raised"})
             => ((pc'[r] = "recover")
                 <=> (data'[r].extractor = "youtube"
                      /\ (data'[r].view_count = None \/ data'[r].like_count = None)))
          /\ (pc[r] = "recover" /\ pc'[r] # "recover")
             => /\ Len(calls'[r]) = Len(calls[r]) + 1
                /\ calls'[r][Len(calls'[r])].op = "extract_info(id)"
                /\ calls'[r][Len(calls'[r])].arg = data[r].id
                /\ calls'[r][Len(calls'[r])].res = "raise"
                   => /\ data'[r] = data[r]
                      /\ pc'[r] = "check"
                      /\ result'[r] = Pending
                      /\ sent'[r] = sent[r]]_vars

C17_Witness ==
    \E r \in Requests :
        /\ RecoveryFailed(r)
        /\ ReturnedMedia(r)
        /\ result[r].out.like_count = None
        /\ result[r].out.view_count = Some(9)

\* the failures download() has no handler of its own for: an index into an
\* empty list, a None operand, a process that cannot be created
UnexpectedFailures == {"IndexError", "TypeError", "OSError"}

\* C18: a failure of no known kind (a playlist without entries, a temporary
\* directory without the fetched file, ...) ends the request with one Error
\* event and an error outcome with no artifacts, never with an exception
\* leaving download(), and the temporary directory is released.
C18_UnexpectedFailureBecomesErrorOutcome ==
    \A r \in Requests :
        /\ result[r].kind = "raise" => result[r].exc \notin UnexpectedFailures
        /\ (Finished(r) /\ temp_dir[r] # "unset") => temp_dir[r] = "deleted"

\* C19: requests are not deduplicated against each other. What a request
\* observes at its cache check is only whether the files are in the data
\* folder, whatever the other requests are doing, and it goes on to fetch
\* whenever an artifact it wants is absent; so two requests at the same time
\* for the same id and dimensions can both fetch and both convert, each in
\* its own temporary directory, to the same destination.
C19_NoDeduplicationAcrossRequests ==
    [][\A r \in Requests :
          (pc[r] = "check" /\ pc'[r] # "check" /\ ~data[r].is_live)
          => /\ audio_exists'[r] = (get_audio_name(data[r].id) \in data_folder)
             /\ video_exists'[r] =
                   (get_video_name(data[r].id, width[r], height[r]) \in data_folder)
             /\ (~audio_exists'[r] \/ (is_video[r] /\ ~video_exists'[r]))
                => pc'[r] = "fetch"]_vars

C19_Witness ==
    \E r1 \in Requests, r2 \in Requests :
        /\ r1 # r2
        /\ media_id[r1] = media_id[r2] /\ width[r1] = width[r2] /\ height[r1] = height[r2]
        /\ ~audio_exists[r1] /\ ~audio_exists[r2]
        /\ FetchSucceeded(r1) /\ FetchSucceeded(r2)
        /\ temp_dir[r1] = "open" /\ temp_dir[r2] = "open"
        /\ pc[r1] = "ffmpeg" /\ pc[r2] = "ffmpeg"
        /\ encoding[r1] = get_audio_name(media_id[r1]) /\ encoding[r2] = encoding[r1]

\* the artifacts of the returned list that request r did not convert because
\* its cache check found them
TakenFromCache(aexists, vexists, files) ==
    {files[i] : i \in {k \in DOMAIN files : (k = 1 /\ aexists) \/ (k = 2 /\ vexists)}}

\* C20: at the moment a request returns a Media outcome listing an artifact
\* it did not convert because its cache check found the file, no conversion
\* job of another request is still writing that artifact.
C20_CachedArtifactIsNotBeingWritten ==
    [][\A r \in Requests :
          (pc[r] # "done" /\ pc'[r] = "done"
           /\ result'[r].kind = "return" /\ result'[r].out.action = "media")
          => \A o \in Requests \ {r} :
                encoding'[o] \notin
                    TakenFromCache(audio_exists'[r], video_exists'[r], result'[r].files)]_vars

====
